---- MODULE Spec2Model ----
(***************************************************************************)
(* Model of JDD_scheduler.py: a talk table is loaded, a schedule is built  *)
(* by one pass over the presentation order (inserting the lunch and the    *)
(* coffee break), a console summary is shown, the operator is asked for    *)
(* confirmation and, on "yes", the schedule is rendered to LaTeX and       *)
(* written to jdd_schedule.tex.                                            *)
(*                                                                         *)
(* Times are minutes since 00:00 of the day strptime("%H:%M") yields.      *)
(* Text is a sequence of one-character strings, so that substring tests,   *)
(* strip() and lower() are computed as the code computes them.             *)
(***************************************************************************)
EXTENDS Integers, Sequences, FiniteSets, TLC

\* ------------------------------------------------------------------ bounds
MaxRows == 2
MaxOrder == 3

\* ------------------------------------------------------------------- text
Blank == " "

LunchWord == <<"L", "u", "n", "c", "h">>
CoffeeWord == <<"C", "o", "f", "f", "e", "e">>
YesWord == <<"y", "e", "s">>

LUNCH_LABEL == <<"-", "-", "-", " ">> \o LunchWord \o <<" ", "B", "r", "e", "a", "k", " ", "-", "-", "-">>
COFFEE_LABEL == <<"-", "-", "-", " ">> \o CoffeeWord \o <<" ", "B", "r", "e", "a", "k", " ", "-", "-", "-">>

\* Python's `sub in s` on str.
Contains(sub, s) ==
  \E i \in 0..(Len(s) - Len(sub)) : SubSeq(s, i + 1, i + Len(sub)) = sub

\* str.lower() on the characters the inputs use.
LowerChar(c) ==
  CASE c = "Y" -> "y"
    [] c = "E" -> "e"
    [] c = "S" -> "s"
    [] c = "N" -> "n"
    [] c = "O" -> "o"
    [] OTHER -> c

Lower(s) == [i \in 1..Len(s) |-> LowerChar(s[i])]

IsSpace(c) == c \in {" ", "\t"}

RECURSIVE LStrip(_)
LStrip(s) ==
  IF s # <<>> /\ IsSpace(Head(s)) THEN LStrip(Tail(s)) ELSE s

RECURSIVE RStrip(_)
RStrip(s) ==
  IF s # <<>> /\ IsSpace(s[Len(s)]) THEN RStrip(SubSeq(s, 1, Len(s) - 1)) ELSE s

\* str.strip()
Strip(s) == RStrip(LStrip(s))

\* strftime('%H') and strftime('%M') as numbers (the day wraps at 24 h).
Hour(t) == (t \div 60) % 24
Minute(t) == t % 60

\* ----------------------------------------------------------------- inputs
PADDING == 10

\* The rows a CSV file may hold.
CsvRows ==
  { [FIRSTNAME |-> <<"A">>, LASTNAME |-> <<"K">>, TITLE |-> <<"t">>, TIME |-> 20, ONLINE |-> 0],
    [FIRSTNAME |-> <<"B">>, LASTNAME |-> <<"K">>, TITLE |-> LunchWord, TIME |-> 50, ONLINE |-> 1],
    [FIRSTNAME |-> <<"J">>, LASTNAME |-> CoffeeWord, TITLE |-> <<"t">>, TIME |-> 140, ONLINE |-> 1],
    [FIRSTNAME |-> <<"L">>, LASTNAME |-> LunchWord, TITLE |-> <<"t">>, TIME |-> 20, ONLINE |-> 0] }

\* pd.read_csv followed by df.insert(0, "ID", range(len(df))).
ReadCsv(rows) ==
  [i \in 1..Len(rows) |->
     [ID |-> i - 1, FIRSTNAME |-> rows[i].FIRSTNAME, LASTNAME |-> rows[i].LASTNAME,
      TITLE |-> rows[i].TITLE, TIME |-> rows[i].TIME, ONLINE |-> rows[i].ONLINE]]

Tables == UNION { [1..n -> CsvRows] : n \in 1..MaxRows }

\* IDs an order may name for a table of n rows: every row, the last row by its
\* negative index, and one past the end.
OrderIds(n) == {-1} \cup (0..n)

Orders(n) == UNION { [1..k -> OrderIds(n)] : k \in 0..MaxOrder }

\* The shipped constants of the script, in minutes.
SRC_START_TIME == 565
SRC_LUNCH_START == 720
SRC_LUNCH_END == 840
SRC_COFFEE_START == 940
SRC_COFFEE_END == 960

Cfg(s, ls, le, cs, ce) ==
  [START_TIME |-> s, LUNCH_START |-> ls, LUNCH_END |-> le,
   COFFEE_START |-> cs, COFFEE_END |-> ce]

\* Configurations: the shipped one and variations of the start time and windows.
Configs ==
  { Cfg(SRC_START_TIME, SRC_LUNCH_START, SRC_LUNCH_END, SRC_COFFEE_START, SRC_COFFEE_END),
    Cfg(710, SRC_LUNCH_START, SRC_LUNCH_END, SRC_COFFEE_START, SRC_COFFEE_END),
    Cfg(660, SRC_LUNCH_START, SRC_LUNCH_END, 900, 920),
    Cfg(750, SRC_LUNCH_START, SRC_LUNCH_END, SRC_COFFEE_START, SRC_COFFEE_END),
    Cfg(950, SRC_LUNCH_START, SRC_LUNCH_END, SRC_COFFEE_START, SRC_COFFEE_END),
    Cfg(SRC_START_TIME, SRC_LUNCH_START, SRC_LUNCH_END, 600, 620) }

\* Lines typed at the confirmation prompt.
Inputs ==
  { YesWord, <<"Y", "E", "S">>, <<" ", "Y", "e", "s", " ">>, <<>>,
    <<"y", "e", "s", " ", "y">> }

\* ------------------------------------------------------------------ state
VARIABLES
  df,            \* the loaded table, a sequence of rows with their ID
  cfg,           \* START_TIME, LUNCH_*, COFFEE_*
  order,         \* the presentation order
  schedule,      \* the entries built so far
  current_time,
  pos,           \* index in order of the next iteration of the build loop
  pc,            \* "build", "prompt", "answered", "done", "failed"
  stdout,        \* what was shown on the console
  typed,         \* the line typed at the prompt
  resp,          \* the normalised answer
  rendered,      \* number of calls of generate_jdd_latex
  latex,         \* the text generate_jdd_latex returned
  file           \* content of jdd_schedule.tex, <<>> when not written

vars == <<df, cfg, order, schedule, current_time, pos, pc, stdout, typed, resp, rendered, latex, file>>

\* ------------------------------------------------------------- scheduler
\* df.iloc[idx] succeeds for -len(df) <= idx < len(df).
IlocOk(table, idx) == -Len(table) <= idx /\ idx < Len(table)

Iloc(table, idx) == table[(idx % Len(table)) + 1]

LunchEntry(c) ==
  [Speaker |-> LUNCH_LABEL, Title |-> <<>>, Start |-> c.LUNCH_START,
   End |-> c.LUNCH_END, ID |-> -1, Online |-> -1]

CoffeeEntry(c) ==
  [Speaker |-> COFFEE_LABEL, Title |-> <<>>, Start |-> c.COFFEE_START,
   End |-> c.COFFEE_END, ID |-> -1, Online |-> -1]

TalkEntry(row, idx, start, end) ==
  [Speaker |-> row.FIRSTNAME \o <<Blank>> \o row.LASTNAME, Title |-> row.TITLE,
   Start |-> start, End |-> end, ID |-> idx, Online |-> row.ONLINE]

Duration(row) == row.TIME + PADDING

\* Fault variants of the lunch check: the lower bound dropped; the upper bound inclusive.
M_LunchCheckNoLower(c, ct, end) == end > c.LUNCH_START

M_LunchCheckInclusive(c, ct, end) == ct <= c.LUNCH_START /\ end >= c.LUNCH_START

LunchCheck(c, ct, end) == ct <= c.LUNCH_START /\ end > c.LUNCH_START

\* Fault variant of the coffee check: the lower bound dropped.
M_CoffeeCheckNoLower(c, ct, end) == end > c.COFFEE_START

CoffeeCheck(c, ct, end) == ct <= c.COFFEE_START /\ end > c.COFFEE_START

\* The loop's locals at the top of an iteration: no entry appended yet.
IterationStart(ct, dur) ==
  [current_time |-> ct, end_time |-> ct + dur, entries |-> <<>>]

\* Fault variants of the lunch block: current_time left at the start of the break;
\* end_time not recomputed.
M_LunchBlockStaysAtStart(c, st, dur) ==
  IF LunchCheck(c, st.current_time, st.end_time)
  THEN [current_time |-> c.LUNCH_START, end_time |-> c.LUNCH_START + dur,
        entries |-> Append(st.entries, LunchEntry(c))]
  ELSE st

M_LunchBlockStaleEnd(c, st, dur) ==
  IF LunchCheck(c, st.current_time, st.end_time)
  THEN [current_time |-> c.LUNCH_END, end_time |-> st.end_time,
        entries |-> Append(st.entries, LunchEntry(c))]
  ELSE st

\* "Handle lunch break": st holds current_time, end_time and the entries appended.
LunchBlock(c, st, dur) ==
  IF LunchCheck(c, st.current_time, st.end_time)
  THEN [current_time |-> c.LUNCH_END, end_time |-> c.LUNCH_END + dur,
        entries |-> Append(st.entries, LunchEntry(c))]
  ELSE st

\* Fault variant of the coffee block: current_time and end_time not advanced.
M_CoffeeBlockNoAdvance(c, st, dur) ==
  IF CoffeeCheck(c, st.current_time, st.end_time)
  THEN [current_time |-> st.current_time, end_time |-> st.end_time,
        entries |-> Append(st.entries, CoffeeEntry(c))]
  ELSE st

\* "Handle coffee break".
CoffeeBlock(c, st, dur) ==
  IF CoffeeCheck(c, st.current_time, st.end_time)
  THEN [current_time |-> c.COFFEE_END, end_time |-> c.COFFEE_END + dur,
        entries |-> Append(st.entries, CoffeeEntry(c))]
  ELSE st

\* The talk is appended and current_time becomes its end_time.
TalkBlock(st, row, idx) ==
  [current_time |-> st.end_time, end_time |-> st.end_time,
   entries |-> Append(st.entries, TalkEntry(row, idx, st.current_time, st.end_time))]

\* One iteration of the loop for row, idx, entered with current_time ct.
IterationBody(c, row, idx, ct) ==
  LET dur == Duration(row)
  IN  TalkBlock(CoffeeBlock(c, LunchBlock(c, IterationStart(ct, dur), dur), dur), row, idx)

\* ---------------------------------------------------------------- renderer
Line(cmd, h1, m1, h2, m2, label, title) ==
  [cmd |-> cmd, h1 |-> h1, m1 |-> m1, h2 |-> h2, m2 |-> m2, label |-> label, title |-> title]

Mark(cmd) == Line(cmd, 0, 0, 0, 0, <<>>, <<>>)

\* The lines generate_jdd_latex appends before the loop.
BlockOpening ==
  <<Mark("%Schedule block"), Mark("begin tcolorbox"), Mark("Matinee"),
    Mark("begin tabularx"), Mark("toprule")>>

\* The line appended after the loop (one string of four LaTeX lines).
BlockClosing ==
  <<Mark("bottomrule"), Mark("end tabularx"), Mark("vspace"), Mark("end tcolorbox")>>

\* The lines the loop body appends for one entry.
EntryLines(s) ==
  IF Contains(LunchWord, s.Speaker)
  THEN <<Mark("bottomrule"), Mark("end tabularx"), Mark("begin separatorbox"),
         Line("Pause dejeuner", Hour(s.Start), Minute(s.Start), Hour(s.End), Minute(s.End), <<>>, <<>>),
         Mark("end separatorbox"), Mark("Apres-midi"), Mark("begin tabularx"), Mark("toprule")>>
  ELSE IF Contains(CoffeeWord, s.Speaker)
  THEN <<Mark("multicolumn begin separatorbox"),
         Line("Pause cafe", Hour(s.Start), Minute(s.Start), Hour(s.End), Minute(s.End), <<>>, <<>>),
         Mark("end separatorbox")>>
  ELSE <<Line(IF s.Online = 1 THEN "onlinetalk" ELSE "talk",
              Hour(s.Start), Minute(s.Start), 0, 0, s.Speaker, s.Title)>>

RECURSIVE BodyLines(_)
BodyLines(sched) ==
  IF sched = <<>> THEN <<>> ELSE EntryLines(Head(sched)) \o BodyLines(Tail(sched))

\* full_tex of generate_jdd_latex(schedule, ...).
generate_jdd_latex(sched) ==
  <<Mark("header")>> \o BlockOpening \o BodyLines(sched) \o BlockClosing \o <<Mark("footer")>>

\* ------------------------------------------------------------------ driver
\* One line of the console summary.
SummaryLine(s) ==
  IF Contains(LunchWord, s.Speaker)
  THEN Line("Lunch Break", Hour(s.Start), Minute(s.Start), Hour(s.End), Minute(s.End), <<>>, <<>>)
  ELSE IF Contains(CoffeeWord, s.Speaker)
  THEN Line("Coffee Break", Hour(s.Start), Minute(s.Start), Hour(s.End), Minute(s.End), <<>>, <<>>)
  ELSE Line("entry", Hour(s.Start), Minute(s.Start), Hour(s.End), Minute(s.End), s.Speaker, s.Title)

Summary(sched) == [i \in 1..Len(sched) |-> SummaryLine(sched[i])]

\* input(...).strip().lower()
Normalise(line) == Lower(Strip(line))

\* Fault variant of the comparison: a substring test.
M_AffirmativeContains(r) == Contains(YesWord, r)

Affirmative(r) == r = YesWord

\* ----------------------------------------------------------------- actions
Init ==
  /\ \E rows \in Tables : df = ReadCsv(rows) /\ order \in Orders(Len(rows))
  /\ cfg \in Configs
  /\ schedule = <<>>
  /\ current_time = cfg.START_TIME
  /\ pos = 1
  /\ pc = "build"
  /\ stdout = <<>>
  /\ typed = <<>>
  /\ resp = <<>>
  /\ rendered = 0
  /\ latex = <<>>
  /\ file = <<>>

\* One iteration of `for idx in order`.
BuildStep ==
  /\ pc = "build"
  /\ pos <= Len(order)
  /\ IlocOk(df, order[pos])
  /\ LET idx == order[pos]
         row == Iloc(df, idx)
         out == IterationBody(cfg, row, idx, current_time)
     IN  /\ schedule' = schedule \o out.entries
         /\ current_time' = out.current_time
  /\ pos' = pos + 1
  /\ UNCHANGED <<df, cfg, order, pc, stdout, typed, resp, rendered, latex, file>>

\* df.iloc[idx] raises IndexError: the script ends with a traceback.
BuildFail ==
  /\ pc = "build"
  /\ pos <= Len(order)
  /\ ~IlocOk(df, order[pos])
  /\ pc' = "failed"
  /\ UNCHANGED <<df, cfg, order, schedule, current_time, pos, stdout, typed, resp, rendered, latex, file>>

\* The loop is over: the summary is shown.
DisplaySummary ==
  /\ pc = "build"
  /\ pos > Len(order)
  /\ stdout' = stdout \o <<Mark("Generated Schedule:")>> \o Summary(schedule)
  /\ pc' = "prompt"
  /\ UNCHANGED <<df, cfg, order, schedule, current_time, pos, typed, resp, rendered, latex, file>>

\* resp = input(...).strip().lower()
Confirm ==
  /\ pc = "prompt"
  /\ \E line \in Inputs : typed' = line /\ resp' = Normalise(line)
  /\ pc' = "answered"
  /\ UNCHANGED <<df, cfg, order, schedule, current_time, pos, stdout, rendered, latex, file>>

\* if resp == "yes": render, write the file, show the text.
Render ==
  /\ pc = "answered"
  /\ Affirmative(resp)
  /\ latex' = generate_jdd_latex(schedule)
  /\ file' = latex'
  /\ rendered' = rendered + 1
  /\ stdout' = stdout \o <<Mark("===== LaTeX Schedule Block =====")>> \o latex'
                \o <<Mark("================================")>>
  /\ pc' = "done"
  /\ UNCHANGED <<df, cfg, order, schedule, current_time, pos, typed, resp>>

\* else: print("Exit.")
Decline ==
  /\ pc = "answered"
  /\ ~Affirmative(resp)
  /\ stdout' = Append(stdout, Mark("Exit."))
  /\ pc' = "done"
  /\ UNCHANGED <<df, cfg, order, schedule, current_time, pos, typed, resp, rendered, latex, file>>

Next == BuildStep \/ BuildFail \/ DisplaySummary \/ Confirm \/ Render \/ Decline

Spec == Init /\ [][Next]_vars


\* ------------------------------------------------------------- properties
IsLunchEntry(e) == e = LunchEntry(cfg)

IsCoffeeEntry(e) == e = CoffeeEntry(cfg)

\* An entry built from a table row.
IsTalkEntry(e) == ~IsLunchEntry(e) /\ ~IsCoffeeEntry(e)

LunchCount(s) == Cardinality({i \in 1..Len(s) : IsLunchEntry(s[i])})

CoffeeCount(s) == Cardinality({i \in 1..Len(s) : IsCoffeeEntry(s[i])})

\* Every ID of the order is a row ID of the table.
ValidOrder == \A i \in 1..Len(order) : order[i] \in 0..(Len(df) - 1)

\* The windows lie as in the shipped constants: the day starts no later than
\* lunch and lunch ends no later than the coffee break starts.
ShippedShape == cfg.START_TIME <= cfg.LUNCH_START /\ cfg.LUNCH_END <= cfg.COFFEE_START

OverlapsWindow(e, from, to) == e.Start < to /\ e.End > from

\* C1: for a valid order the schedule has non-decreasing start times and no
\* entry (talk or break) starts before an earlier entry has ended.
C1_NoOverlap ==
  ValidOrder =>
    \A i, j \in 1..Len(schedule) :
      i < j => /\ schedule[i].End <= schedule[j].Start
               /\ schedule[i].Start <= schedule[j].Start

C1_Witness ==
  /\ ValidOrder
  /\ pc = "prompt"
  /\ LunchCount(schedule) = 1
  /\ CoffeeCount(schedule) = 1
  /\ Len(schedule) >= 4

\* C2 as stated: whatever start time and windows are configured, no talk
\* overlaps the lunch window or the coffee window.
C2_Original ==
  ValidOrder =>
    \A i \in 1..Len(schedule) :
      IsTalkEntry(schedule[i]) =>
        /\ ~OverlapsWindow(schedule[i], cfg.LUNCH_START, cfg.LUNCH_END)
        /\ ~OverlapsWindow(schedule[i], cfg.COFFEE_START, cfg.COFFEE_END)

\* C2 amended: when the day starts no later than lunch and lunch ends no later
\* than the coffee break starts, no talk overlaps the lunch window or the
\* coffee window: a talk whose slot would straddle a break's start is placed
\* after the break.
C2_NoTalkInBreak ==
  (ValidOrder /\ ShippedShape) =>
    \A i \in 1..Len(schedule) :
      IsTalkEntry(schedule[i]) =>
        /\ ~OverlapsWindow(schedule[i], cfg.LUNCH_START, cfg.LUNCH_END)
        /\ ~OverlapsWindow(schedule[i], cfg.COFFEE_START, cfg.COFFEE_END)

\* The scenario of the specification: start 11:50, slot of 30 minutes.
C2_Witness ==
  /\ ValidOrder
  /\ ShippedShape
  /\ cfg.START_TIME = 710
  /\ Len(schedule) >= 2
  /\ IsLunchEntry(schedule[1])
  /\ IsTalkEntry(schedule[2])
  /\ schedule[2].Start = 840
  /\ schedule[2].End = 870

\* C3: the schedule holds at most one lunch entry and at most one coffee entry.
C3_BreaksAtMostOnce ==
  LunchCount(schedule) <= 1 /\ CoffeeCount(schedule) <= 1

C3_Witness ==
  /\ pc = "prompt"
  /\ Len(schedule) >= 5
  /\ IsLunchEntry(schedule[1])
  /\ CoffeeCount(schedule) = 1
  /\ IsTalkEntry(schedule[Len(schedule)])
  /\ IsTalkEntry(schedule[Len(schedule) - 1])

\* C4 as stated: every entry starts exactly when the entry before it ends.
C4_Original ==
  ValidOrder =>
    \A i \in 1..(Len(schedule) - 1) : schedule[i].End = schedule[i + 1].Start

\* C4 amended: a talk starts exactly when the entry before it ends; a break
\* starts at its configured start, at or after the end of the entry before it.
C4_TalkStartsAtPreviousEnd ==
  ValidOrder =>
    \A i \in 1..(Len(schedule) - 1) :
      /\ IsTalkEntry(schedule[i + 1]) => schedule[i].End = schedule[i + 1].Start
      /\ ~IsTalkEntry(schedule[i + 1]) => schedule[i].End <= schedule[i + 1].Start

C4_Witness ==
  /\ ValidOrder
  /\ \E i \in 1..(Len(schedule) - 2) :
       /\ IsCoffeeEntry(schedule[i + 1])
       /\ schedule[i].End < schedule[i + 1].Start
       /\ IsTalkEntry(schedule[i + 2])

\* C5: an ID of the order that is no row ID of the table ends the run in the
\* build loop: its iteration is never completed, nothing is rendered or written.
C5_UnknownIdIsFatal ==
  \A i \in 1..Len(order) :
    order[i] \notin 0..(Len(df) - 1) =>
      /\ pos <= i
      /\ rendered = 0
      /\ file = <<>>

SummaryShown ==
  /\ Len(stdout) >= Len(schedule) + 1
  /\ SubSeq(stdout, 2, Len(schedule) + 1) = Summary(schedule)

Answered == pc \in {"answered", "done"}

\* C6 as stated: rendering happens only after the summary and the answer, and
\* any answer other than "yes" in some letter case renders and writes nothing.
C6_Original ==
  /\ (rendered > 0 \/ file # <<>>) => (pc = "done" /\ SummaryShown)
  /\ (Answered /\ Lower(typed) # YesWord) => (rendered = 0 /\ file = <<>>)
  /\ (pc = "done" /\ Lower(typed) # YesWord) => stdout[Len(stdout)] = Mark("Exit.")

\* C6 amended: rendering happens only after the summary and the answer, and
\* any answer that is not "yes" once surrounding whitespace is removed and
\* letter case ignored renders and writes nothing, and the run ends with "Exit.".
C6_GatedOnConfirmation ==
  /\ (rendered > 0 \/ file # <<>>) =>
       (pc = "done" /\ SummaryShown /\ Lower(Strip(typed)) = YesWord)
  /\ (Answered /\ Lower(Strip(typed)) # YesWord) => (rendered = 0 /\ file = <<>>)
  /\ (pc = "done" /\ Lower(Strip(typed)) # YesWord) => stdout[Len(stdout)] = Mark("Exit.")

C6_Witness ==
  /\ pc = "done"
  /\ typed = <<"y", "e", "s", " ", "y">>
  /\ Len(schedule) >= 2
  /\ rendered = 0
  /\ file = <<>>

\* The row a talk entry is to yield.
TalkRow(e) ==
  <<Line(IF e.Online = 1 THEN "onlinetalk" ELSE "talk",
         Hour(e.Start), Minute(e.Start), 0, 0, e.Speaker, e.Title)>>

RECURSIVE BodyByKind(_)
BodyByKind(sched) ==
  IF sched = <<>> THEN <<>>
  ELSE (IF IsTalkEntry(Head(sched)) THEN TalkRow(Head(sched)) ELSE EntryLines(Head(sched)))
       \o BodyByKind(Tail(sched))

\* C7: the rendered body holds, for every talk entry, exactly its row in the
\* template its online flag selects, and separators for break entries only.
C7_RenderedByKind ==
  (ValidOrder /\ rendered > 0) =>
    latex = <<Mark("header")>> \o BlockOpening \o BodyByKind(schedule)
            \o BlockClosing \o <<Mark("footer")>>

\* current_time at the coffee check of the iteration that is about to run.
TimeAtCoffeeCheck ==
  IF LunchCount(schedule') > LunchCount(schedule) THEN cfg.LUNCH_END ELSE current_time

\* C8: a break is appended only by an iteration whose check finds
\* current_time <= break start < tentative end; hence a day that starts past a
\* break's start never holds that break.
C8_BreakOnlyWhenCrossed ==
  /\ [][ /\ LunchCount(schedule') > LunchCount(schedule) =>
              /\ current_time <= cfg.LUNCH_START
              /\ current_time + Iloc(df, order[pos]).TIME + 10 > cfg.LUNCH_START
         /\ CoffeeCount(schedule') > CoffeeCount(schedule) =>
              /\ TimeAtCoffeeCheck <= cfg.COFFEE_START
              /\ TimeAtCoffeeCheck + Iloc(df, order[pos]).TIME + 10 > cfg.COFFEE_START
       ]_vars
  /\ [](cfg.START_TIME > cfg.LUNCH_START => LunchCount(schedule) = 0)
  /\ [](cfg.START_TIME > cfg.COFFEE_START => CoffeeCount(schedule) = 0)

\* The day starts inside the lunch window: lunch is skipped, coffee is not.
C8_Witness ==
  /\ cfg.START_TIME > cfg.LUNCH_START
  /\ pc = "prompt"
  /\ LunchCount(schedule) = 0
  /\ CoffeeCount(schedule) = 1
  /\ Len(schedule) >= 3

\* C9: for a valid order the talk entries are, in sequence, the IDs of the
\* order handled so far, each lasting its row's TIME plus 10 minutes.
C9_TalksFollowOrder ==
  ValidOrder =>
    LET talks == SelectSeq(schedule, IsTalkEntry)
    IN  /\ Len(talks) = pos - 1
        /\ \A i \in 1..Len(talks) :
             /\ talks[i].ID = order[i]
             /\ talks[i].End - talks[i].Start = df[order[i] + 1].TIME + 10

C9_Witness ==
  /\ ValidOrder
  /\ pc = "prompt"
  /\ Len(order) >= 3
  /\ LunchCount(schedule) = 1
  /\ CoffeeCount(schedule) = 1
  /\ order[1] # order[2]

Opens(l) == Cardinality({k \in 1..Len(l) : l[k].cmd = "begin tabularx"})

Closes(l) == Cardinality({k \in 1..Len(l) : l[k].cmd = "end tabularx"})

IsRowLine(x) == x.cmd \in {"talk", "onlinetalk", "Pause cafe"}

\* C10: the rendered text opens and closes 1 + (number of lunch entries)
\* tabular blocks, and exactly one block is open at every row.
C10_BlocksBalanced ==
  (ValidOrder /\ rendered > 0) =>
    /\ Opens(latex) = 1 + LunchCount(schedule)
    /\ Closes(latex) = 1 + LunchCount(schedule)
    /\ \A k \in 1..Len(latex) :
         IsRowLine(latex[k]) =>
           Opens(SubSeq(latex, 1, k)) - Closes(SubSeq(latex, 1, k)) = 1

====
